---------------------------- MODULE Spec2Model ----------------------------
(*
  A model of the CHAOS/FORMED morph scene: the App component (Mode, the
  auto-shift flag and its 6500 ms interval timer), the LuxuryScene morph
  controller (progressRef damped toward the Mode's target in a frame
  callback), and the FoliagePoints / OrnamentInstances frame callbacks that
  derive the displayed positions from progressRef.

  Numbers.  The program computes in IEEE doubles.  The model computes in
  fixed point, rounding every result to the nearest grid point:
    progress, blend fractions    in units of 1/Scale      (0..Scale is [0,1])
    exp / damping factors        in units of 1/Den
    coordinates                  in units of 1/PosScale
    angles                       in milliradians, sines in units of 1/Den
  Wall-clock time advances in quanta of Quantum ms; a frame's delta is the
  time elapsed since the previous frame.

  React.  A state update and the re-render it schedules (with the effect
  cleanup and the effect re-run when a dependency changed) are one step:
  nothing of this program runs between them.
*)
EXTENDS Integers, Sequences, FiniteSets

VARIABLES
    mounted,      \* the App component is mounted
    mode,         \* App state: "CHAOS" | "FORMED"
    autoShift,    \* App state: auto-shift flag
    interval,     \* handle captured by the effect's cleanup closure, 0 if none
    timers,       \* window's live interval timers: handle -> quanta until its next tick
    sinceFrame,   \* quanta elapsed since the previous frame (THREE.Clock delta)
    progress,     \* LuxuryScene progressRef.current
    uProgress,    \* FoliagePoints shader uniform uProgress
    uTime,        \* FoliagePoints shader uniform uTime (ms)
    definition,   \* ornament definitions: group -> [weight, chaos, target]
    ornT,         \* group -> blend fraction t computed by the last frame
    ornPos,       \* group -> sequence of displayed instance positions
    folPos        \* sequence of displayed foliage positions (vertex shader)

vars == <<mounted, mode, autoShift, interval, timers, sinceFrame, progress,
          uProgress, uTime, definition, ornT, ornPos, folPos>>

appVars    == <<mounted, mode, autoShift, interval>>
renderVars == <<uProgress, uTime, ornT, ornPos, folPos>>
sceneVars  == <<definition>>

---------------------------------------------------------------------------
(* Resolutions and bounds *)

Scale == 100
Den == 10000
PosScale == 1000
TicksPerInterval == 4
MaxDelta == 2
FoliageCount == 2
OrnamentCount == 1
ExpTerms == 12
SinTerms == 8

(* Program constants *)
Interval == 6500
SpeedPct == 65
WaveRate == 1500
SparklePhase == 12
WaveAmpDiv == 20

Quantum == Interval \div TicksPerInterval
IntervalTicks == Interval \div Quantum

Modes == {"CHAOS", "FORMED"}

Abs(x) == IF x < 0 THEN -x ELSE x

(* round(n / d) for d > 0, to the nearest integer *)
RoundDiv(n, d) == (2 * n + d) \div (2 * d)

---------------------------------------------------------------------------
(* THREE.MathUtils.damp(x, y, lambda, dt) = lerp(x, y, 1 - Math.exp(-lambda * dt)) *)

(* 1 + x/k * (1 + x/(k+1) * (1 + ...)): with k = 1 the series
   1 + x + x^2/2! + ... + x^ExpTerms/ExpTerms!, in units of 1/Den *)
RECURSIVE ExpSeries(_, _)
ExpSeries(x, k) ==
    IF k > ExpTerms THEN Den
    ELSE Den + (x * ExpSeries(x, k + 1)) \div (k * Den)

(* Math.exp(-x) for x >= 0 in units of 1/Den: 1 / exp(x) *)
ExpNeg(x) == (Den * Den) \div ExpSeries(x, 1)

(* lambda * dt, in units of 1/Den, for lambda in percent and dt in ms *)
LambdaDt(pct, ms) == (pct * ms * (Den \div 1000)) \div 100

(* THREE.MathUtils.lerp(x, y, t) = (1 - t) * x + t * y, t in units of 1/Den *)
LerpOvershoot(x, y, t) == x + RoundDiv(t * y, Den)
Lerp(x, y, t) == RoundDiv((Den - t) * x + t * y, Den)

(* 1 - Math.exp(-lambda * dt), in units of 1/Den *)
DampAlphaLinear(pct, ms) == LambdaDt(pct, ms)
DampAlpha(pct, ms) == Den - ExpNeg(LambdaDt(pct, ms))

(* DampAlpha for the frame deltas of the model, computed once *)
AlphaTable == [d \in 0..MaxDelta |-> DampAlpha(SpeedPct, d * Quantum)]

(* damp(x, y, lambda, dt) for lambda = SpeedPct / 100 and dt = d quanta *)
Damp(x, y, d) == Lerp(x, y, AlphaTable[d])

TargetSwapped(m) == IF m = "FORMED" THEN 0 ELSE Scale
Target(m) == IF m = "FORMED" THEN Scale ELSE 0

Flip(m) == IF m = "FORMED" THEN "CHAOS" ELSE "FORMED"

---------------------------------------------------------------------------
(* OrnamentInstances: t = smoothstep(progress, 0, 1) ** (1 / weight) *)

(* THREE.MathUtils.smoothstep(x, 0, 1): clamp, then x * x * (3 - 2 * x) *)
SmoothStep(x) ==
    IF x <= 0 THEN 0
    ELSE IF x >= Scale THEN Scale
    ELSE RoundDiv(x * x * (3 * Scale - 2 * x), Scale * Scale)

(* the largest r in lo..hi with r^k <= x * Scale^(k-1), k in {2, 3}: floor of
   the k-th root of x/Scale, in units of 1/Scale, by bisection *)
RECURSIVE RootSearch(_, _, _, _)
RootSearch(x, k, lo, hi) ==
    IF lo >= hi THEN lo
    ELSE LET mid == (lo + hi + 1) \div 2
             pw  == IF k = 2 THEN mid * mid ELSE mid * mid * mid
             rhs == IF k = 2 THEN x * Scale ELSE x * Scale * Scale
         IN  IF pw <= rhs THEN RootSearch(x, k, mid, hi)
             ELSE RootSearch(x, k, lo, mid - 1)

(* the k-th root of x/Scale (k in {2, 3}) rounded to the nearest 1/Scale *)
NearestRoot(x, k) ==
    LET f   == RootSearch(x, k, 0, Scale)
        h   == 2 * f + 1
        hp  == IF k = 2 THEN h * h ELSE h * h * h
        rhs == IF k = 2 THEN 4 * x * Scale ELSE 8 * x * Scale * Scale
    IN  IF hp <= rhs THEN f + 1 ELSE f

(* x ** (1/n) for n = 2^a * 3^b, by nested square and cube roots *)
RECURSIVE Root(_, _)
Root(x, n) ==
    IF n <= 1 THEN x
    ELSE IF n % 3 = 0 THEN Root(NearestRoot(x, 3), n \div 3)
    ELSE Root(NearestRoot(x, 2), n \div 2)

(* x ** n for a natural n *)
RECURSIVE IPow(_, _)
IPow(x, n) == IF n = 0 THEN Scale ELSE RoundDiv(x * IPow(x, n - 1), Scale)

(* base ** (num / den) *)
Pow(base, num, den) == IPow(Root(base, den), num)

(* a weight is the rational <<num, den>>; 1 / weight is den / num *)
BlendTimes(p, weight) == RoundDiv(SmoothStep(p) * weight[2], weight[1])
BlendInverse(p, weight) == Pow(SmoothStep(p), weight[1], weight[2])
Blend(p, weight) == Pow(SmoothStep(p), weight[2], weight[1])

---------------------------------------------------------------------------
(* Vectors: <<x, y, z>> in units of 1/PosScale *)

(* Vector3.lerp(v, alpha): this.x += (v.x - this.x) * alpha *)
LerpVec(a, b, t) == [i \in 1..3 |-> a[i] + RoundDiv((b[i] - a[i]) * t, Scale)]

(* GLSL mix(x, y, a) = x * (1 - a) + y * a *)
Mix(a, b, t) == [i \in 1..3 |-> RoundDiv(a[i] * (Scale - t) + b[i] * t, Scale)]

(* the largest r in lo..hi with r * r <= n, by bisection *)
RECURSIVE SqrtSearch(_, _, _)
SqrtSearch(n, lo, hi) ==
    IF lo >= hi THEN lo
    ELSE LET mid == (lo + hi + 1) \div 2
         IN  IF mid * mid <= n THEN SqrtSearch(n, mid, hi)
             ELSE SqrtSearch(n, lo, mid - 1)

(* GLSL length(v) *)
Length(v) == SqrtSearch(v[1] * v[1] + v[2] * v[2] + v[3] * v[3], 0, 16 * PosScale)

(* 1 - x^2/(2k(2k+1)) * (1 - x^2/((2k+2)(2k+3)) * (1 - ...)), in units of
   1/Den; x2 is x^2 in units of 1/10000 *)
RECURSIVE SinSeries(_, _)
SinSeries(x2, k) ==
    IF k > SinTerms THEN Den
    ELSE Den - (x2 * SinSeries(x2, k + 1)) \div (2 * k * (2 * k + 1) * 10000)

(* GLSL sin(theta), theta in milliradians, result in units of 1/Den:
   x - x^3/3! + x^5/5! - ... after reducing theta to (-pi, pi] *)
Sin(theta) ==
    LET twoPi == 6283
        r == theta % twoPi
        x == IF 2 * r > twoPi THEN r - twoPi ELSE r
    IN  RoundDiv(x * SinSeries((x * x) \div 100, 1), 1000)

(* the vertex shader of FoliagePoints:
     mixedPosition = mix(position, target, uProgress);
     wave = sin(uTime * 1.5 + sparkle * 12.0) * 0.05;
     mixedPosition += normalize(mixedPosition) * wave;
   uTime in ms, sparkle in units of 1/1000 *)
Wave(time, sparkle) ==
    RoundDiv(Sin((time * WaveRate) \div 1000 + sparkle * SparklePhase) * PosScale,
             Den * WaveAmpDiv)

Vertex(p, u, time) ==
    LET m   == Mix(p.chaos, p.target, u)
        len == Length(m)
        w   == Wave(time, p.sparkle)
    IN  [i \in 1..3 |-> m[i] + RoundDiv(m[i] * w, len)]

---------------------------------------------------------------------------
(* Scene data (useMemo, computed once per mount) *)

Groups == {"gifts", "globes", "lights"}

(* GrandTree: useOrnamentSet(60, gifts, 1.35, 0.4), (180, globes, 0.9, 0.2),
   (260, lights, 0.6, 0.1); a weight is <<num, den>> *)
GrandTreeWeight(g) ==
    CASE g = "gifts"  -> <<27, 20>>
      [] g = "globes" -> <<9, 10>>
      [] g = "lights" -> <<3, 5>>

(* where a group's instances start in the sample lists *)
GroupFirst(g) ==
    CASE g = "gifts"  -> 1
      [] g = "globes" -> 2
      [] g = "lights" -> 3

(* sample outputs of randomPointInSphere(CHAOS_RADIUS + spread) *)
ChaosSamples ==
    << <<3000, 1000, -2000>>, <<-1500, -3000, 500>>, <<200, 4000, 1000>>,
       <<-2500, 500, 3000>> >>

(* sample outputs of randomPointOnCone(TREE_HEIGHT, TREE_RADIUS [* 0.85]) *)
TargetSamples ==
    << <<1800, -2340, 400>>, <<-300, 260, 1050>>, <<40, 2800, -30>> >>

(* sample outputs of Math.random() for sparkle, in units of 1/1000 *)
SparkleSamples == <<500, 250, 40>>

Pick(samples, i) == samples[((i - 1) % Len(samples)) + 1]

(* the frame clock readings (clock.elapsedTime, ms) a frame may see *)
TimeInputs == {0, 1000}

(* the weights an OrnamentInstances component is given in OrnamentSpec *)
WeightInputs == {<<1, 1>>, <<2, 1>>, <<1, 2>>, <<3, 1>>}

(* FoliagePoints geometry: FoliageCount particles *)
FoliageGeometry ==
    [i \in 1..FoliageCount |->
        [chaos   |-> Pick(ChaosSamples, i),
         target  |-> Pick(TargetSamples, i),
         sparkle |-> Pick(SparkleSamples, i)]]

(* Vertex for every particle, uniform value and clock reading, computed once *)
VertexTable ==
    [i \in 1..FoliageCount, u \in 0..Scale, time \in TimeInputs |->
        Vertex(FoliageGeometry[i], u, time)]
VertexOf(i, u, time) ==
    IF <<i, u, time>> \in DOMAIN VertexTable THEN VertexTable[i, u, time]
    ELSE Vertex(FoliageGeometry[i], u, time)

(* Blend for every progress value and weight, computed once *)
BlendTable ==
    [p \in 0..Scale,
     w \in WeightInputs \cup {GrandTreeWeight(g) : g \in Groups} |-> Blend(p, w)]
BlendOf(p, w) ==
    IF <<p, w>> \in DOMAIN BlendTable THEN BlendTable[p, w] ELSE Blend(p, w)

(* useOrnamentSet(count, palette, weight, spread) *)
OrnamentSet(weight, first) ==
    [weight |-> weight,
     chaos  |-> [i \in 1..OrnamentCount |-> Pick(ChaosSamples, i + first)],
     target |-> [i \in 1..OrnamentCount |-> Pick(TargetSamples, i + first + 1)]]

---------------------------------------------------------------------------
(* App: the auto-shift effect
     useEffect(() => {
       if (!autoShift) return undefined;
       const interval = window.setInterval(() => setMode(flip), 6500);
       return () => window.clearInterval(interval);
     }, [autoShift]);                                                      *)

(* window.setInterval returns a handle no live timer has *)
NewHandle(ts) ==
    CHOOSE h \in 1..(Cardinality(DOMAIN ts) + 1) : h \notin DOMAIN ts

(* the effect's cleanup: window.clearInterval(interval) *)
CleanupLeak(ts, h) == ts
Cleanup(ts, h) == [k \in DOMAIN ts \ {h} |-> ts[k]]

(* the effect body: the timer table and the captured handle after it ran *)
Effect(ts, auto) ==
    IF ~auto THEN [timers |-> ts, interval |-> 0]
    ELSE LET h == NewHandle(ts)
         IN  [timers   |-> [k \in DOMAIN ts \cup {h} |->
                               IF k = h THEN IntervalTicks ELSE ts[k]],
              interval |-> h]

Init ==
    /\ mounted = TRUE
    /\ mode = "FORMED"
    /\ autoShift = TRUE
    /\ LET e == Effect([k \in {} |-> 0], TRUE)
       IN  timers = e.timers /\ interval = e.interval
    /\ sinceFrame = 0
    /\ progress = (IF mode = "FORMED" THEN Scale ELSE 0)
    /\ uProgress = progress
    /\ uTime = 0
    /\ definition = [g \in Groups |-> OrnamentSet(GrandTreeWeight(g), GroupFirst(g))]
    /\ ornT = [g \in Groups |-> 0]
    /\ ornPos = [g \in Groups |-> << >>]
    /\ folPos = << >>

(* the interval callback: setMode((prev) => (prev === "FORMED" ? "CHAOS" : "FORMED")) *)
TimerTickSet(h) ==
    /\ h \in DOMAIN timers
    /\ timers[h] = 0
    /\ mode' = "CHAOS"
    /\ timers' = [timers EXCEPT ![h] = IntervalTicks]
    /\ UNCHANGED <<mounted, autoShift, interval, sinceFrame, progress,
                   renderVars, sceneVars>>
TimerTick(h) ==
    /\ h \in DOMAIN timers
    /\ timers[h] = 0
    /\ mode' = Flip(mode)
    /\ timers' = [timers EXCEPT ![h] = IntervalTicks]
    /\ UNCHANGED <<mounted, autoShift, interval, sinceFrame, progress,
                   renderVars, sceneVars>>

(* the "Toggle" button: onClick={() => setMode(flip)}; the re-render leaves
   the effect alone, its dependency [autoShift] being unchanged *)
ToggleModeRestart ==
    /\ mounted
    /\ mode' = Flip(mode)
    /\ LET e == Effect(Cleanup(timers, interval), autoShift)
       IN  timers' = e.timers /\ interval' = e.interval
    /\ UNCHANGED <<mounted, autoShift, sinceFrame, progress, renderVars, sceneVars>>
ToggleModeSnap ==
    /\ mounted
    /\ mode' = Flip(mode)
    /\ progress' = Target(mode')
    /\ UNCHANGED <<mounted, autoShift, interval, timers, sinceFrame,
                   renderVars, sceneVars>>
ToggleMode ==
    /\ mounted
    /\ mode' = Flip(mode)
    /\ UNCHANGED <<mounted, autoShift, interval, timers, sinceFrame, progress,
                   renderVars, sceneVars>>

(* the "Auto Shift" button: onClick={() => setAutoShift((prev) => !prev)};
   the re-render runs the old effect's cleanup, then the effect again *)
ToggleAutoShift ==
    /\ mounted
    /\ autoShift' = ~autoShift
    /\ LET e == Effect(Cleanup(timers, interval), autoShift')
       IN  timers' = e.timers /\ interval' = e.interval
    /\ UNCHANGED <<mounted, mode, sinceFrame, progress, renderVars, sceneVars>>

(* teardown: React runs the effect's cleanup when App unmounts *)
Unmount ==
    /\ mounted
    /\ mounted' = FALSE
    /\ timers' = Cleanup(timers, interval)
    /\ interval' = 0
    /\ UNCHANGED <<mode, autoShift, sinceFrame, progress, renderVars, sceneVars>>

(* one quantum of wall-clock time passes; a due timer fires first *)
AdvanceTime ==
    /\ \A h \in DOMAIN timers : timers[h] > 0
    /\ mounted => sinceFrame < MaxDelta
    /\ timers' = [h \in DOMAIN timers |-> timers[h] - 1]
    /\ sinceFrame' = IF mounted THEN sinceFrame + 1 ELSE sinceFrame
    /\ UNCHANGED <<appVars, progress, renderVars, sceneVars>>

---------------------------------------------------------------------------
(* One rendered frame.  The render loop calls the useFrame subscribers in
   subscription order, then draws.  useFrame subscribes in a layout effect,
   and React runs the layout effects of a subtree children first, so the
   order is FoliagePoints, the three OrnamentInstances, LuxuryScene. *)

(* FoliagePoints: uProgress.value = progressRef.current; uTime.value = elapsedTime
   (materialRef is attached at commit, before the first frame) *)
FoliageUseFrame(time) ==
    /\ uProgress' = progress
    /\ uTime' = time

(* OrnamentInstances, every group: t and the instance positions
   (meshRef is attached at commit, before the first frame) *)
OrnamentUseFrame ==
    /\ ornT' = [g \in Groups |-> BlendOf(progress, definition[g].weight)]
    /\ ornPos' = [g \in Groups |->
                    [i \in 1..OrnamentCount |->
                        LerpVec(definition[g].chaos[i], definition[g].target[i],
                                BlendOf(progress, definition[g].weight))]]

(* LuxuryScene: progressRef.current = damp(progressRef.current, target, 0.65, delta),
   delta = d quanta *)
LuxurySceneUseFrame(d) ==
    progress' = Damp(progress, Target(mode), d)

(* the draw: the vertex shader places every foliage particle from the
   uniforms u = uProgress and time = uTime that this frame has set *)
Draw(u, time) ==
    folPos' = [i \in 1..FoliageCount |-> VertexOf(i, u, time)]

Frame(time) ==
    /\ mounted
    /\ FoliageUseFrame(time)
    /\ OrnamentUseFrame
    /\ LuxurySceneUseFrame(sinceFrame)
    /\ Draw(progress, time)
    /\ sinceFrame' = 0
    /\ UNCHANGED <<appVars, timers, sceneVars>>

TimerStep == \E h \in DOMAIN timers : TimerTick(h)
FrameStep == \E time \in TimeInputs : Frame(time)

Next ==
    \/ TimerStep
    \/ ToggleMode
    \/ ToggleAutoShift
    \/ Unmount
    \/ AdvanceTime
    \/ FrameStep

Spec == Init /\ [][Next]_vars

(* The frame loop keeps running while the scene is mounted, wall-clock time
   keeps passing, and a due timer callback is eventually run. *)
FairSpec ==
    /\ Spec
    /\ WF_vars(AdvanceTime)
    /\ WF_vars(TimerStep)
    /\ WF_vars(FrameStep)

---------------------------------------------------------------------------
(* OrnamentInstances alone, as a function of its props: any progress in
   [0, 1] and any weights among WeightInputs *)

OrnamentInit ==
    /\ mounted = TRUE
    /\ mode = "FORMED"
    /\ autoShift = TRUE
    /\ LET e == Effect([k \in {} |-> 0], TRUE)
       IN  timers = e.timers /\ interval = e.interval
    /\ sinceFrame = 0
    /\ progress \in 0..Scale
    /\ uProgress = progress
    /\ uTime = 0
    /\ \E w \in [Groups -> WeightInputs] :
          definition = [g \in Groups |-> OrnamentSet(w[g], GroupFirst(g))]
    /\ ornT = [g \in Groups |-> 0]
    /\ ornPos = [g \in Groups |-> << >>]
    /\ folPos = << >>

OrnamentFrame ==
    /\ mounted
    /\ OrnamentUseFrame
    /\ UNCHANGED <<appVars, timers, sinceFrame, progress, uProgress, uTime,
                   folPos, sceneVars>>

OrnamentSpec == OrnamentInit /\ [][OrnamentFrame]_vars

---------------------------------------------------------------------------
(* Properties *)

(* a timer's callback ran in this step: its countdown was due and restarted *)
Ticked ==
    \E h \in DOMAIN timers :
        timers[h] = 0 /\ h \in DOMAIN timers' /\ timers'[h] = IntervalTicks

FramesRan == folPos # << >>

(* C1: in every reachable state progress lies in [0, 1], whatever the
   interleaving of frames (delta >= 0), timer ticks and toggles. *)
C1_ProgressInRange == 0 <= progress /\ progress <= Scale

C1_Witness ==
    /\ FramesRan /\ ~autoShift /\ mode = "FORMED"
    /\ 0 < progress /\ progress < Scale /\ uProgress < progress

(* C2: a tick of the interval timer flips Mode exactly once and only happens
   while auto-shift is enabled; a frame touches neither Mode nor the timer;
   while auto-shift is disabled no timer is due and none ticks. *)
C2_TickFlipsOnce ==
    [][ /\ Ticked => (autoShift /\ mode' = Flip(mode))
        /\ FrameStep => UNCHANGED <<mode, timers>>
        /\ ~autoShift => (~Ticked /\ ~ENABLED TimerStep) ]_vars

C2_Witness ==
    /\ FramesRan /\ autoShift /\ mode = "CHAOS" /\ sinceFrame > 0
    /\ interval \in DOMAIN timers /\ timers[interval] = IntervalTicks

(* C3: a manual toggle is possible whether auto-shift is on or off, flips
   Mode once, and leaves the auto-shift flag, the timer and its scheduled
   next tick unchanged. *)
C3_ToggleKeepsTimer ==
    [][ /\ mounted => ENABLED ToggleMode
        /\ ToggleMode => /\ mode' = Flip(mode)
                         /\ UNCHANGED <<autoShift, interval, timers>> ]_vars

C3_Witness ==
    /\ mounted /\ autoShift /\ mode = "CHAOS" /\ progress = Scale
    /\ interval \in DOMAIN timers
    /\ 0 < timers[interval] /\ timers[interval] < IntervalTicks

(* C4: a live interval timer exists only while the component is mounted and
   auto-shift is enabled, it is the one the effect's cleanup holds, there is
   never more than one, and Mode never changes after teardown. *)
TimerOwned ==
    /\ DOMAIN timers # {} => (mounted /\ autoShift)
    /\ Cardinality(DOMAIN timers) <= 1
    /\ DOMAIN timers = (IF interval = 0 THEN {} ELSE {interval})

C4_TimerCancelled ==
    /\ []TimerOwned
    /\ [][~mounted => mode' = mode]_vars

C4_Witness ==
    /\ ~mounted /\ autoShift /\ DOMAIN timers = {} /\ FramesRan

(* C5: progress approaches the current target monotonically and never
   crosses it: while Mode is CHAOS no step raises it or takes it below 0,
   while Mode is FORMED no step lowers it or takes it above 1. *)
C5_Monotone ==
    [][ /\ mode = "CHAOS"  => (progress' <= progress /\ progress' >= 0)
        /\ mode = "FORMED" => (progress' >= progress /\ progress' <= Scale) ]_vars

C5_Witness ==
    /\ FramesRan /\ mode = "CHAOS"
    /\ 0 < progress /\ progress < uProgress /\ uProgress < Scale

(* C6: if the scene stays mounted with Mode FORMED, progress eventually comes
   within 1e-3 of 1 and stays there; symmetrically toward 0 for CHAOS. *)
StaysFormed == mounted /\ mode = "FORMED"
StaysChaos == mounted /\ mode = "CHAOS"
(* within 1e-3 of 1, of 0: |progress - v| * 1000 <= Scale *)
NearOne == progress >= Scale - Scale \div 1000
NearZero == progress <= Scale \div 1000

C6_Converges ==
    /\ <>[]StaysFormed => <>[]NearOne
    /\ <>[]StaysChaos => <>[]NearZero

C6_Witness ==
    /\ mounted /\ ~autoShift /\ mode = "FORMED"
    /\ uProgress < Scale - Scale \div 1000 /\ NearOne

(* the groups whose weight is w, once their frame callback has run *)
Placed(w) == {g \in Groups : definition[g].weight = w /\ ornPos[g] # << >>}

Heavier(g) == definition[g].weight[1] > definition[g].weight[2]
Lighter(g) == definition[g].weight[1] < definition[g].weight[2]

(* C7 as stated: for the same progress, t2 = t1^2 (to the model's
   resolution) for a group of weight 1 and a group of weight 2; a group of
   weight > 1 is behind the eased progress, one of weight < 1 ahead of it. *)
C7_Original ==
    /\ \A g1 \in Placed(<<1, 1>>) : \A g2 \in Placed(<<2, 1>>) :
          Abs(ornT[g2] * Scale - ornT[g1] * ornT[g1]) <= ornT[g1]
    /\ \A g \in Groups : ornPos[g] # << >> =>
          /\ Heavier(g) => ornT[g] <= SmoothStep(progress)
          /\ Lighter(g) => ornT[g] >= SmoothStep(progress)

(* C7 amended: t1 = t2^2 (t2 is the square root of t1, to the model's
   resolution); a group of weight > 1 is at or ahead of the eased progress,
   one of weight < 1 at or behind it. *)
C7_Amended ==
    /\ \A g1 \in Placed(<<1, 1>>) : \A g2 \in Placed(<<2, 1>>) :
          Abs(ornT[g2] * ornT[g2] - ornT[g1] * Scale) <= ornT[g2]
    /\ \A g \in Groups : ornPos[g] # << >> =>
          /\ Heavier(g) => ornT[g] >= SmoothStep(progress)
          /\ Lighter(g) => ornT[g] <= SmoothStep(progress)

C7_Witness ==
    /\ 0 < progress /\ progress < Scale
    /\ \E g1 \in Placed(<<1, 1>>) : \E g2 \in Placed(<<2, 1>>) :
          \E g3 \in Placed(<<1, 2>>) :
             /\ 0 < ornT[g1] /\ ornT[g1] < Scale
             /\ ornT[g2] > ornT[g1]
             /\ ornT[g3] < ornT[g1]

(* a point of the segment from a to b, as the renderer computes it *)
OnOrnamentSegment(pos, a, b) == \E t \in 0..Scale : pos = LerpVec(a, b, t)
OnFoliageSegment(pos, a, b) == \E t \in 0..Scale : pos = Mix(a, b, t)

OrnamentsOnSegment ==
    \A g \in Groups : \A i \in DOMAIN ornPos[g] :
        OnOrnamentSegment(ornPos[g][i], definition[g].chaos[i],
                          definition[g].target[i])

(* the amplitude of the foliage wave, 0.05 *)
WaveAmp == PosScale \div WaveAmpDiv

(* C8 as stated: every displayed foliage and ornament position is
   chaos + t * (target - chaos) for some t in [0, 1]. *)
C8_Original ==
    /\ OrnamentsOnSegment
    /\ \A i \in DOMAIN folPos :
          OnFoliageSegment(folPos[i], FoliageGeometry[i].chaos,
                           FoliageGeometry[i].target)

(* C8 amended: every ornament position is on its segment, with the blend
   fraction the frame computed, which is in [0, 1]; every foliage position
   is within the wave amplitude 0.05 of the point of its segment at blend
   fraction uProgress, which is in [0, 1]. *)
C8_Amended ==
    /\ OrnamentsOnSegment
    /\ \A g \in Groups : 0 <= ornT[g] /\ ornT[g] <= Scale
    /\ 0 <= uProgress /\ uProgress <= Scale
    /\ \A i \in DOMAIN folPos :
          LET m == Mix(FoliageGeometry[i].chaos, FoliageGeometry[i].target, uProgress)
          IN  \A c \in 1..3 : Abs(folPos[i][c] - m[c]) <= WaveAmp

C8_Witness ==
    /\ 0 < uProgress /\ uProgress < Scale
    /\ \E g \in Groups : ornPos[g] # << >> /\ 0 < ornT[g] /\ ornT[g] < Scale
    /\ \E i \in DOMAIN folPos :
          ~OnFoliageSegment(folPos[i], FoliageGeometry[i].chaos,
                           FoliageGeometry[i].target)

(* C9: progress starts at the target of the initial Mode, and no step that
   changes Mode, the auto-shift flag or a timer changes progress: a flip
   only changes the target that later frames damp toward. *)
C9_NoJump ==
    /\ progress = Target(mode)
    /\ [][ (mode' # mode \/ autoShift' # autoShift \/ timers' # timers)
              => progress' = progress ]_vars

C9_Witness ==
    /\ FramesRan /\ mode = "CHAOS" /\ progress = Scale /\ sinceFrame = 0

(* C10: in every frame the value the foliage and ornament callbacks read is
   the value the morph controller has already damped in that same frame. *)
C10_ReadAfterDamp ==
    [][ FrameStep =>
          /\ uProgress' = progress'
          /\ ornT' = [g \in Groups |-> BlendOf(progress', definition[g].weight)] ]_vars

===========================================================================
